---- MODULE Spec2Model ----
(***************************************************************************)
(* Model of python-examples/flask-app.py: the Flask font scanner.          *)
(* Text is modelled as sequences of one-character strings, so that the     *)
(* regular expressions, split/strip/replace and the deduplication key are  *)
(* computed character by character as the Python code computes them.       *)
(***************************************************************************)
EXTENDS Naturals, Sequences, FiniteSets, TLC

\* ------------------------------------------------------------- text helpers

Upper == <<"A","B","C","D","E","F","G","H","I","J","K","L","M","N","O","P","Q","R","S","T","U","V","W","X","Y","Z">>
Lower == <<"a","b","c","d","e","f","g","h","i","j","k","l","m","n","o","p","q","r","s","t","u","v","w","x","y","z">>
Digits == <<"0","1","2","3","4","5","6","7","8","9">>

\* str.lower() on one character
LowerChar(c) ==
    IF \E i \in 1..Len(Upper) : Upper[i] = c
    THEN Lower[CHOOSE i \in 1..Len(Upper) : Upper[i] = c]
    ELSE c

\* str.lower()
lower(s) == SubSeq([i \in 1..Len(s) |-> LowerChar(s[i])], 1, Len(s))

Range(s) == {s[i] : i \in 1..Len(s)}

\* the characters matched by \s and removed by str.strip()
Whitespace == {" ", "\n", "\t"}

\* s[i:] (0-based i), as Python slices
From(s, i) == SubSeq(s, i + 1, Len(s))

\* s.startswith(sub, i) (0-based i)
StartsAt(s, sub, i) ==
    /\ i + Len(sub) <= Len(s)
    /\ SubSeq(s, i + 1, i + Len(sub)) = sub

\* sub in s
Contains(s, sub) == \E i \in 0..Len(s) : StartsAt(s, sub, i)

\* s.find(sub, from): the least 0-based index, Len(s) + 1 when there is none
Find(s, sub, from) ==
    LET hits == {i \in from..Len(s) : StartsAt(s, sub, i)}
    IN  IF hits = {} THEN Len(s) + 1
        ELSE CHOOSE i \in hits : \A j \in hits : i <= j

\* the end (0-based, exclusive) of the longest run of characters in cls from i
RECURSIVE RunEnd(_, _, _)
RunEnd(s, cls, i) ==
    IF i < Len(s) /\ s[i + 1] \in cls THEN RunEnd(s, cls, i + 1) ELSE i

\* the end of the longest run of characters NOT in cls from i
RECURSIVE RunEndNot(_, _, _)
RunEndNot(s, cls, i) ==
    IF i < Len(s) /\ s[i + 1] \notin cls THEN RunEndNot(s, cls, i + 1) ELSE i

\* str.replace(a, b) for single characters
replace(s, a, b) == SubSeq([i \in 1..Len(s) |-> IF s[i] = a THEN b ELSE s[i]], 1, Len(s))

\* str.split(sep) for a single-character separator: always at least one part
RECURSIVE split(_, _)
split(s, sep) ==
    LET e == RunEndNot(s, {sep}, 0) IN
    IF e = Len(s) THEN <<s>>
    ELSE <<SubSeq(s, 1, e)>> \o split(From(s, e + 1), sep)

\* str.strip(chars): leading and trailing characters of the set removed
RECURSIVE rstrip(_, _)
rstrip(s, chars) ==
    IF Len(s) > 0 /\ s[Len(s)] \in chars THEN rstrip(SubSeq(s, 1, Len(s) - 1), chars)
    ELSE s

strip(s, chars) == rstrip(From(s, RunEnd(s, chars, 0)), chars)

\* Flat concatenation of a sequence of sequences
RECURSIVE Concat(_)
Concat(ss) == IF ss = <<>> THEN <<>> ELSE Head(ss) \o Concat(Tail(ss))

\* the parts joined by a separator
RECURSIVE Join(_, _)
Join(ss, sep) ==
    IF ss = <<>> THEN <<>>
    ELSE IF Len(ss) = 1 THEN ss[1]
    ELSE ss[1] \o sep \o Join(Tail(ss), sep)

\* ------------------------------------------------------------ FontAnalyzer

\* self.google_fonts
google_fonts ==
    << <<"R","o","b","o","t","o">>, <<"O","p","e","n"," ","S","a","n","s">>, <<"L","a","t","o">>, <<"M","o","n","t","s","e","r","r","a","t">>, <<"S","o","u","r","c","e"," ","S","a","n","s"," ","P","r","o">>,
       <<"R","a","l","e","w","a","y">>, <<"P","o","p","p","i","n","s">>, <<"O","s","w","a","l","d">>, <<"N","u","n","i","t","o">>, <<"U","b","u","n","t","u">>, <<"M","u","l","i","s","h">>,
       <<"I","n","t","e","r">>, <<"P","l","a","y","f","a","i","r"," ","D","i","s","p","l","a","y">>, <<"M","e","r","r","i","w","e","a","t","h","e","r">>, <<"P","T"," ","S","a","n","s">> >>

\* mutant: the names compared with their case
is_google_font_case_sensitive(font_name) ==
    \E k \in 1..Len(google_fonts) : Contains(font_name, google_fonts[k])

is_google_font(font_name) ==
    LET name == lower(font_name)
    IN \E k \in 1..Len(google_fonts) : Contains(name, lower(google_fonts[k]))

GoogleHost == <<"f","o","n","t","s",".","g","o","o","g","l","e","a","p","i","s",".","c","o","m">>
CssMarker == <<"c","s","s">>
Quotes == {"'", "\""}

\* re.search(r'family=([^&]*)', url): <<group(1)>>, or <<>> when nothing matches
family_match(text) ==
    LET key == <<"f","a","m","i","l","y","=">>
        p == Find(text, key, 0)
    IN  IF p > Len(text) THEN <<>>
        ELSE LET b == p + Len(key)
             IN <<SubSeq(text, b + 1, RunEndNot(text, {"&"}, b))>>

\* mutant: the weight/style suffix is left on the family
import_descriptors_keep_suffix(import_url) ==
    LET m == family_match(import_url) IN
    IF m = <<>> THEN <<>>
    ELSE LET families == split(replace(m[1], "+", " "), "|")
         IN [k \in 1..Len(families) |->
                [family |-> families[k], type |-> "google", source |-> import_url]]

\* the @import loop of extract_fonts_from_css: for each import URL, the family=
\* parameter with '+' replaced by ' ', split on '|', each cut at its first ':'
import_descriptors(import_url) ==
    LET m == family_match(import_url) IN
    IF m = <<>> THEN <<>>
    ELSE LET families == split(replace(m[1], "+", " "), "|")
         IN [k \in 1..Len(families) |->
                [family |-> split(families[k], ":")[1],
                 type |-> "google",
                 source |-> import_url]]

\* import_pattern matched at 0-based position p:
\*   @import\s+url\(['"]?([^'")]*fonts\.googleapis\.com[^'")]*)['"]?\)
\* The group is the whole run of characters other than ' " ) because what
\* follows it must be a quote or the closing parenthesis.
ImportMatchAt(s, p) ==
    LET kw == <<"@","i","m","p","o","r","t">>
        fn == <<"u","r","l","(">>
        a == p + Len(kw)
        w == RunEnd(s, Whitespace, a)
        b == w + Len(fn)
        q == IF b < Len(s) /\ s[b + 1] \in Quotes THEN b + 1 ELSE b
        e == RunEndNot(s, Quotes \cup {")"}, q)
        c == IF e < Len(s) /\ s[e + 1] \in Quotes THEN e + 1 ELSE e
        ok == /\ StartsAt(s, kw, p)
              /\ w > a
              /\ StartsAt(s, fn, w)
              /\ Contains(SubSeq(s, q + 1, e), GoogleHost)
              /\ c < Len(s)
              /\ s[c + 1] = ")"
    IN  IF ok THEN [ok |-> TRUE, group |-> SubSeq(s, q + 1, e), end |-> c + 1]
        ELSE [ok |-> FALSE, group |-> <<>>, end |-> p + 1]

\* font_family_pattern matched at 0-based position p (re.IGNORECASE):
\*   font-family\s*:\s*([^;}]+)
\* When nothing but whitespace follows the colon, the second \s* gives back its
\* last character to the group.
FontFamilyMatchAt(s, p) ==
    LET kw == <<"f","o","n","t","-","f","a","m","i","l","y">>
        a == p + Len(kw)
        w == RunEnd(s, Whitespace, a)
        b == w + 1
        k == RunEnd(s, Whitespace, b)
        e == RunEndNot(s, {";", "}"}, k)
        ok == /\ a <= Len(s)
              /\ lower(SubSeq(s, p + 1, a)) = kw
              /\ w < Len(s)
              /\ s[w + 1] = ":"
              /\ (e > k \/ k > b)
    IN  IF ok
        THEN [ok |-> TRUE,
              group |-> IF e > k THEN SubSeq(s, k + 1, e) ELSE SubSeq(s, k, k),
              end |-> IF e > k THEN e ELSE k]
        ELSE [ok |-> FALSE, group |-> <<>>, end |-> p + 1]

\* re.findall(import_pattern, css_content): the groups of the non-overlapping
\* matches, left to right. A match can only start where "@import" starts.
RECURSIVE findall_imports(_, _)
findall_imports(s, p) ==
    LET n == Find(s, <<"@","i","m","p","o","r","t">>, p) IN
    IF n > Len(s) THEN <<>>
    ELSE LET m == ImportMatchAt(s, n)
         IN IF m.ok THEN <<m.group>> \o findall_imports(s, m.end)
            ELSE findall_imports(s, n + 1)

\* re.findall(font_family_pattern, css_content, re.IGNORECASE)
RECURSIVE findall_declarations(_, _)
findall_declarations(s, p) ==
    LET n == Find(lower(s), <<"f","o","n","t","-","f","a","m","i","l","y">>, p) IN
    IF n > Len(s) THEN <<>>
    ELSE LET m == FontFamilyMatchAt(s, n)
         IN IF m.ok THEN <<m.group>> \o findall_declarations(s, m.end)
            ELSE findall_declarations(s, n + 1)

GenericKeywords == { <<"s","e","r","i","f">>, <<"s","a","n","s","-","s","e","r","i","f">>, <<"m","o","n","o","s","p","a","c","e">>, <<"c","u","r","s","i","v","e">>, <<"f","a","n","t","a","s","y">> }

\* mutant: the generic keywords are not discarded
keeps_family_nonempty(family) == family # <<>>

\* the test of line 142 on one cleaned candidate
keeps_family(family) == family # <<>> /\ family \notin GenericKeywords

\* [f.strip().strip('\'"') for f in declaration.split(',')]
clean_families(declaration) ==
    LET parts == split(declaration, ",")
    IN [k \in 1..Len(parts) |-> strip(strip(parts[k], Whitespace), Quotes)]

\* the font-family loop of extract_fonts_from_css on one declaration
declaration_descriptors(declaration) ==
    LET kept == SelectSeq(clean_families(declaration), keeps_family)
    IN [k \in 1..Len(kept) |->
           [family |-> kept[k],
            type |-> IF is_google_font(kept[k]) THEN "google" ELSE "web",
            source |-> CssMarker]]

\* `for import_url in imports:` appending the descriptors of each URL
RECURSIVE imports_descriptors(_)
imports_descriptors(imports) ==
    IF imports = <<>> THEN <<>>
    ELSE import_descriptors(Head(imports)) \o imports_descriptors(Tail(imports))

\* `for declaration in declarations:` appending the descriptors of each one
RECURSIVE declarations_descriptors(_)
declarations_descriptors(declarations) ==
    IF declarations = <<>> THEN <<>>
    ELSE declaration_descriptors(Head(declarations))
         \o declarations_descriptors(Tail(declarations))

\* FontAnalyzer.extract_fonts_from_css (base_url is not used by the code)
extract_fonts_from_css(css_content, base_url) ==
    imports_descriptors(findall_imports(css_content, 0))
    \o declarations_descriptors(findall_declarations(css_content, 0))

\* font_key = f"{font['family']}-{font['type']}"
TypeText(t) == IF t = "google" THEN <<"g","o","o","g","l","e">> ELSE <<"w","e","b">>

\* mutant: the key leaves the type out
font_key_family_only(font) == font.family

font_key(font) == font.family \o <<"-">> \o TypeText(font.type)

\* the "Remove duplicates" loop: unique_fonts, given the keys seen so far
RECURSIVE unique_from(_, _)
unique_from(fonts_, seen) ==
    IF fonts_ = <<>> THEN <<>>
    ELSE LET k == font_key(Head(fonts_))
         IN IF k \in seen THEN unique_from(Tail(fonts_), seen)
            ELSE <<Head(fonts_)>> \o unique_from(Tail(fonts_), seen \cup {k})

unique_fonts(fonts_) == unique_from(fonts_, {})

\* the "Check for Google Fonts link tags" loop body for one href
link_descriptors(href) ==
    LET m == family_match(href) IN
    IF m = <<>> THEN <<>>
    ELSE LET families == split(replace(m[1], "+", " "), "|")
         IN [k \in 1..Len(families) |->
                [family |-> split(families[k], ":")[1],
                 type |-> "google",
                 source |-> href]]

\* ------------------------------------------------------- urllib.parse

Letters == Range(Lower) \cup Range(Upper)
SchemeChars == Letters \cup Range(Digits) \cup {"+", "-", "."}

\* urlparse(u) for a string: the scheme and the netloc, and whether urlsplit
\* raises ValueError("Invalid IPv6 URL") for unbalanced brackets in the netloc
urlparse(u) ==
    LET i == Find(u, <<":">>, 0)
        hasScheme == /\ i > 0
                     /\ i <= Len(u)
                     /\ u[1] \in Letters
                     /\ \A j \in 1..i : u[j] \in SchemeChars
        rest == IF hasScheme THEN From(u, i + 1) ELSE u
        hasNet == StartsAt(rest, <<"/","/">>, 0)
        netloc == IF hasNet THEN SubSeq(rest, 3, RunEndNot(rest, {"/", "?", "#"}, 2))
                  ELSE <<>>
    IN  [scheme |-> IF hasScheme THEN lower(SubSeq(u, 1, i)) ELSE <<>>,
         netloc |-> netloc,
         path |-> IF hasNet THEN From(rest, 2 + Len(netloc)) ELSE rest,
         raises |-> ("[" \in Range(netloc)) # ("]" \in Range(netloc))]

\* the path up to and including its last "/", "/" when it has none
directory(path) ==
    IF "/" \in Range(path)
    THEN SubSeq(path, 1, CHOOSE i \in 1..Len(path) :
                            /\ path[i] = "/"
                            /\ \A j \in (i + 1)..Len(path) : path[j] # "/")
    ELSE <<"/">>

\* urljoin(base, href) for an absolute base: an empty href gives the base, then an
\* absolute href, a protocol-relative one, a root-relative one, and one relative
\* to the base's directory
urljoin(base, href) ==
    LET b == urlparse(base)
        origin == b.scheme \o <<":","/","/">> \o b.netloc
    IN  IF href = <<>> THEN base
        ELSE IF urlparse(href).scheme # <<>> THEN href
        ELSE IF StartsAt(href, <<"/","/">>, 0) THEN b.scheme \o <<":">> \o href
        ELSE IF StartsAt(href, <<"/">>, 0) THEN origin \o href
        ELSE origin \o directory(b.path) \o href

\* mutant: only server errors raise
raise_for_status_5xx_only(status) == 500 <= status /\ status < 600

\* requests' Response.raise_for_status(): HTTPError for 4xx and 5xx only
raise_for_status(status) == 400 <= status /\ status < 600

\* ------------------------------------------------------------ the inputs

\* the most <link> elements a page holds
MaxLinks == 3

\* the most pieces a stylesheet text is composed of (SpecCss)
MaxPieces == 2

RECURSIVE SeqsUpTo(_, _)
SeqsUpTo(S, n) ==
    IF n = 0 THEN {<<>>}
    ELSE LET shorter == SeqsUpTo(S, n - 1)
         IN shorter \cup {Append(q, x) : q \in {r \in shorter : Len(r) = n - 1}, x \in S}

NoValue == [t |-> "missing", n |-> 0, s |-> <<>>]
Text(s) == [t |-> "string", n |-> 0, s |-> s]

PageUrl == <<"h","t","t","p","s",":","/","/","e","x","a","m","p","l","e",".","c","o","m","/","b","l","o","g","/","p","o","s","t">>

\* request bodies as request.get_json() sees them
RequestBodies ==
    { [kind |-> "absent", url |-> NoValue],
      [kind |-> "array", url |-> NoValue],
      [kind |-> "object", url |-> NoValue],
      [kind |-> "object", url |-> [t |-> "null", n |-> 0, s |-> <<>>]],
      [kind |-> "object", url |-> [t |-> "number", n |-> 0, s |-> <<>>]],
      [kind |-> "object", url |-> [t |-> "number", n |-> 123, s |-> <<>>]],
      [kind |-> "object", url |-> Text(<<>>)],
      [kind |-> "object", url |-> Text(<<"n","o","t","-","a","-","u","r","l">>)],
      [kind |-> "object", url |-> Text(<<"/","/","e","x","a","m","p","l","e",".","c","o","m">>)],
      [kind |-> "object", url |-> Text(<<"m","a","i","l","t","o",":","f","o","n","t","s">>)],
      [kind |-> "object", url |-> Text(<<"h","t","t","p",":","/","/","[","x">>)],
      [kind |-> "object", url |-> Text(PageUrl)] }

LinkLato == [rel |-> "", href |-> <<"h","t","t","p","s",":","/","/","f","o","n","t","s",".","g","o","o","g","l","e","a","p","i","s",".","c","o","m","/","c","s","s","?","f","a","m","i","l","y","=","L","a","t","o">>]
LinkEmptySegment == [rel |-> "preload", href |-> <<"/","/","f","o","n","t","s",".","g","o","o","g","l","e","a","p","i","s",".","c","o","m","/","c","s","s","?","f","a","m","i","l","y","=","F","i","r","a","+","S","a","n","s","|">>]
LinkGoogleSheet ==
    [rel |-> "stylesheet",
     href |-> <<"h","t","t","p","s",":","/","/","f","o","n","t","s",".","g","o","o","g","l","e","a","p","i","s",".","c","o","m","/","c","s","s","?","f","a","m","i","l","y","=","R","o","b","o","t","o",":","4","0","0",",","7","0","0","|","O","p","e","n","+","S","a","n","s","&","d","i","s","p","l","a","y","=","s","w","a","p">>]
LinkA == [rel |-> "stylesheet", href |-> <<"a",".","c","s","s">>]
LinkB == [rel |-> "stylesheet", href |-> <<"/","s","t","a","t","i","c","/","b",".","c","s","s">>]
LinkNoHref == [rel |-> "stylesheet", href |-> <<>>]

LinkPool == {LinkLato, LinkEmptySegment, LinkGoogleSheet, LinkA, LinkB, LinkNoHref}

StyleFira == <<"h","2"," ","{"," ","f","o","n","t","-","f","a","m","i","l","y",":"," ","'","F","i","r","a"," ","S","a","n","s","'",","," ","s","e","r","i","f",";"," ","}">>
StyleImport ==
    <<"@","i","m","p","o","r","t"," ","u","r","l","(","\"","h","t","t","p","s",":","/","/","f","o","n","t","s",".","g","o","o","g","l","e","a","p","i","s",".","c","o","m","/","c","s","s","?","f","a","m","i","l","y","=","O","p","e","n","+","S","a","n","s",":","3","0","0","\"",")",";",".","x","{","F","O","N","T","-","F","A","M","I","L","Y",":","A","r","i","a","l","}">>

\* the style.string of the page's <style> elements (<<>>: no string)
StyleChoices == {<<>>, <<StyleFira>>, <<<<>>, StyleImport>>}

EmptyPage == [links |-> <<>>, styles |-> <<>>]

\* the link elements of a page: up to MaxLinks elements of the pool, in any
\* order, repetitions included
LinkLists == SeqsUpTo(LinkPool, MaxLinks)

Pages == {[links |-> l, styles |-> st] : l \in LinkLists, st \in StyleChoices}

SheetA == <<"b","o","d","y","{","f","o","n","t","-","f","a","m","i","l","y",":","A","r","i","a","l",",","s","a","n","s","-","s","e","r","i","f","}","h","1","{","f","o","n","t","-","f","a","m","i","l","y",":","'","O","p","e","n"," ","S","a","n","s","'",",","s","e","r","i","f",";","}">>
SheetB ==
    <<"@","i","m","p","o","r","t"," ","u","r","l","(","'","h","t","t","p","s",":","/","/","f","o","n","t","s",".","g","o","o","g","l","e","a","p","i","s",".","c","o","m","/","c","s","s","?","f","a","m","i","l","y","=","L","a","t","o","'",")",";","p","{","f","o","n","t","-","f","a","m","i","l","y",":","\"","R","o","b","o","t","o","\"",",","A","r","i","a","l","}">>
SheetGoogle == <<"@","f","o","n","t","-","f","a","c","e","{","f","o","n","t","-","f","a","m","i","l","y",":","'","R","o","b","o","t","o","'",";","s","r","c",":","u","r","l","(","r",".","w","o","f","f","2",")","}">>

\* the body a stylesheet URL is served with
SheetBody(css_url) ==
    IF Contains(css_url, <<"a",".","c","s","s">>) THEN SheetA
    ELSE IF Contains(css_url, <<"b",".","c","s","s">>) THEN SheetB
    ELSE SheetGoogle

\* the body of an error page
ErrorBody == <<"<","s","t","y","l","e",">","b","o","d","y","{","f","o","n","t","-","f","a","m","i","l","y",":","V","e","r","d","a","n","a",",","s","a","n","s","-","s","e","r","i","f",";","}","<","/","s","t","y","l","e",">","<","h","1",">","N","o","t"," ","F","o","u","n","d","<","/","h","1",">">>

\* what requests.get(url, ...) can do for the page: raise, or answer
PageOutcomes ==
    { [kind |-> k, status |-> 0, page |-> EmptyPage] : k \in {"error", "timeout"} }
    \cup { [kind |-> "response", status |-> st, page |-> EmptyPage] : st \in {304, 404, 503} }
    \cup { [kind |-> "response", status |-> 200, page |-> pg] : pg \in Pages }

\* what requests.get(css_url, ...) can do for a stylesheet
SheetOutcomes(css_url) ==
    { [kind |-> k, status |-> 0, text |-> <<>>] : k \in {"error", "timeout"} }
    \cup { [kind |-> "response", status |-> 200, text |-> SheetBody(css_url)],
           [kind |-> "response", status |-> 404, text |-> ErrorBody] }

\* ------------------------------------------------------------- the state

VARIABLES
    pc,          \* where the request is: idle, fetch_page, stylesheets, done
    request,     \* the body of the POST /api/scan request
    url,         \* analyze_website's url
    page,        \* the parsed page (soup): its link and style elements
    css_links,   \* soup.find_all('link', rel='stylesheet')
    idx,         \* the position of the stylesheet loop in css_links
    fonts,       \* analyze_website's fonts list, before deduplication
    origins,     \* for each entry of fonts, the element it was collected from
    fetched,     \* the stylesheet requests made, in order, with their outcomes
    primary,     \* the outcome of the page fetch (kind "none": not attempted)
    http_status, \* the status of the HTTP response (0: none yet)
    response,    \* the JSON body of the HTTP response
    css,         \* SpecCss: the stylesheet text under extraction, and its pieces
    extracted    \* SpecCss: the descriptors extracted from css, and by which scan

vars == <<pc, request, url, page, css_links, idx, fonts, origins, fetched, primary,
          http_status, response, css, extracted>>

NoResponse == [error |-> "none"]
NoCss == [pieces |-> <<>>, text |-> <<>>]
NoneExtracted == [by |-> "none", fonts |-> <<>>]

InitScan ==
    /\ pc = "idle"
    /\ request = [kind |-> "absent", url |-> NoValue]
    /\ url = <<>>
    /\ page = EmptyPage
    /\ css_links = <<>>
    /\ idx = 1
    /\ fonts = <<>>
    /\ origins = <<>>
    /\ fetched = <<>>
    /\ primary = [kind |-> "none", status |-> 0]
    /\ http_status = 0
    /\ response = NoResponse

Init ==
    /\ InitScan
    /\ css = NoCss
    /\ extracted = NoneExtracted

\* ------------------------------------------------------------ scan_fonts

\* `not url` for the value of data.get('url')
falsy(v) ==
    \/ v.t \in {"missing", "null"}
    \/ v.t = "number" /\ v.n = 0
    \/ v.t = "string" /\ v.s = <<>>

\* scan_fonts up to the call of analyze_website: the status it answers with,
\* 0 when the request passes validation. get_json() of an absent body and
\* data.get of a non-object raise, as urlparse does for a non-string and for
\* unbalanced brackets: the except clause answers 500.
scan_fonts_status(body) ==
    IF body.kind # "object" THEN 500
    ELSE IF falsy(body.url) THEN 400
    ELSE IF body.url.t # "string" THEN 500
    ELSE IF urlparse(body.url.s).raises THEN 500
    ELSE IF urlparse(body.url.s).scheme = <<>> \/ urlparse(body.url.s).netloc = <<>> THEN 400
    ELSE 0

scan_fonts_error(body) ==
    IF scan_fonts_status(body) = 500 THEN "exception"
    ELSE IF falsy(body.url) THEN "URL is required"
    ELSE "Invalid URL"

\* POST /api/scan arrives: scan_fonts rejects it or calls analyze_website
Request ==
    /\ pc = "idle"
    /\ \E body \in RequestBodies :
         /\ request' = body
         /\ IF scan_fonts_status(body) # 0
            THEN /\ pc' = "done"
                 /\ http_status' = scan_fonts_status(body)
                 /\ response' = [error |-> scan_fonts_error(body)]
                 /\ url' = url
            ELSE /\ pc' = "fetch_page"
                 /\ url' = body.url.s
                 /\ UNCHANGED <<http_status, response>>
    /\ UNCHANGED <<page, css_links, idx, fonts, origins, fetched, primary, css, extracted>>

\* ------------------------------------------------- analyze_website

\* soup.find_all('link', href=lambda x: x and 'fonts.googleapis.com' in x)
google_font_links(pg) ==
    SelectSeq(pg.links, LAMBDA l : l.href # <<>> /\ Contains(l.href, GoogleHost))

\* soup.find_all('link', rel='stylesheet')
stylesheet_links(pg) == SelectSeq(pg.links, LAMBDA l : l.rel = "stylesheet")

\* the link loop's contribution for one link element
link_fonts(l) == link_descriptors(l.href)

\* extract_fonts_from_css over the texts the pages and servers of the model
\* hold, computed once
ServedTexts == {StyleFira, StyleImport, SheetA, SheetB, SheetGoogle, ErrorBody}

css_fonts_of == [t \in ServedTexts |-> extract_fonts_from_css(t, <<>>)]

\* the style loop's contribution for one style element: `if style.string:`
style_fonts(text) == IF text # <<>> THEN css_fonts_of[text] ELSE <<>>

\* for each descriptor of the lists collected from a page's elements, the
\* element it was collected from
OriginsOf(lists, from) ==
    Concat([k \in 1..Len(lists) |-> [j \in 1..Len(lists[k]) |-> [from |-> from, n |-> k]]])

\* mutant: the total counts the descriptors before deduplication
success_result_counts_collected(fonts_, u) ==
    [success |-> TRUE,
     fonts |-> unique_fonts(fonts_),
     total_fonts |-> Len(fonts_),
     url |-> u]

\* the successful return value of analyze_website
success_result(fonts_, u) ==
    [success |-> TRUE,
     fonts |-> unique_fonts(fonts_),
     total_fonts |-> Len(unique_fonts(fonts_)),
     url |-> u]

\* the return value of the outer except clause
failure_result(message, u) ==
    [success |-> FALSE, error |-> message, fonts |-> <<>>, url |-> u]

\* what str(e) says for the outcome of the page fetch
page_error(o) ==
    IF o.kind = "error" THEN "ConnectionError"
    ELSE IF o.kind = "timeout" THEN "Timeout"
    ELSE "HTTPError"

\* whether the page fetch ends in the outer except clause
page_fetch_fails(o) == o.kind # "response" \/ raise_for_status(o.status)

\* the stylesheet loop is over: deduplicate, return, and scan_fonts answers
\* jsonify(result) with the default status
Return(fonts_) ==
    /\ pc' = "done"
    /\ http_status' = 200
    /\ response' = success_result(fonts_, url)

\* requests.get(url) returns or raises; on success the page is parsed, the
\* Google Fonts link tags and the inline styles are scanned
FetchPage ==
    /\ pc = "fetch_page"
    /\ \E o \in PageOutcomes :
         /\ primary' = [kind |-> o.kind, status |-> o.status]
         /\ IF page_fetch_fails(o)
            THEN /\ pc' = "done"
                 /\ http_status' = 200
                 /\ response' = failure_result(page_error(o), url)
                 /\ UNCHANGED <<page, css_links, idx, fonts, origins>>
            ELSE LET glinks == google_font_links(o.page)
                     from_links == [k \in 1..Len(glinks) |-> link_fonts(glinks[k])]
                     from_styles == [k \in 1..Len(o.page.styles) |->
                                        style_fonts(o.page.styles[k])]
                     collected == Concat(from_links) \o Concat(from_styles)
                 IN /\ page' = o.page
                    /\ fonts' = collected
                    /\ origins' = OriginsOf(from_links, "link")
                                      \o OriginsOf(from_styles, "style")
                    /\ css_links' = stylesheet_links(o.page)
                    /\ idx' = 1
                    /\ IF stylesheet_links(o.page) = <<>>
                       THEN Return(collected)
                       ELSE /\ pc' = "stylesheets"
                            /\ UNCHANGED <<http_status, response>>
    /\ UNCHANGED <<request, url, fetched, css, extracted>>

\* whether the stylesheet fetch raises into the inner except clause
sheet_fetch_raises(o) == o.kind # "response"

\* the fonts one stylesheet fetch adds: none when requests.get raised,
\* otherwise those of css_response.text, whatever the status
sheet_fonts(o, css_url) ==
    IF sheet_fetch_raises(o) THEN <<>> ELSE css_fonts_of[o.text]

\* mutant: a failed fetch ends the loop
loop_breaks_on_failure(o) == ~sheet_fetch_raises(o)

\* whether the loop goes on to the next link after this outcome: the inner
\* except clause logs the failure and the loop goes on
loop_continues(o) == TRUE

\* one iteration of the "Analyze external stylesheets" loop
FetchStylesheet ==
    /\ pc = "stylesheets"
    /\ idx <= Len(css_links)
    /\ LET href == css_links[idx].href
           css_url == urljoin(url, href)
           last == idx = Len(css_links)
       IN IF href = <<>>
          THEN /\ UNCHANGED <<fonts, origins, fetched>>
               /\ idx' = idx + 1
               /\ IF last THEN Return(fonts)
                  ELSE UNCHANGED <<pc, http_status, response>>
          ELSE \E o \in SheetOutcomes(css_url) :
                 LET css_fonts == sheet_fonts(o, css_url)
                     stop == last \/ ~loop_continues(o)
                 IN /\ fonts' = fonts \o css_fonts
                    /\ origins' = origins \o [j \in 1..Len(css_fonts) |->
                                                 [from |-> "sheet", n |-> idx]]
                    /\ fetched' = Append(fetched,
                                         [n |-> idx, url |-> css_url,
                                          kind |-> o.kind, status |-> o.status])
                    /\ idx' = idx + 1
                    /\ IF stop THEN Return(fonts \o css_fonts)
                       ELSE UNCHANGED <<pc, http_status, response>>
    /\ UNCHANGED <<request, url, page, css_links, primary, css, extracted>>

Next ==
    \/ Request
    \/ FetchPage
    \/ FetchStylesheet

Spec == Init /\ [][Next]_vars

\* ---------------------------------------- the extraction on composed texts

\* A stylesheet text is composed of pieces whose content is known: an @import
\* of a Google Fonts URL built from a list of families, a font-family
\* declaration built from a list of candidates, or a rule without fonts.

Family(name, suffix) == [name |-> name, suffix |-> suffix]
Candidate(name, quote, pad) == [name |-> name, quote |-> quote, pad |-> pad]

\* the family parameter's value for a list of families: '+' for each space,
\* the weights after ':', '|' between the families
FamilyParameter(families) ==
    Join([k \in 1..Len(families) |->
             replace(families[k].name, " ", "+") \o families[k].suffix], <<"|">>)

ImportPiece(families, tail, quote) ==
    [kind |-> "import",
     url |-> <<"h","t","t","p","s",":","/","/","f","o","n","t","s",".","g","o","o","g","l","e","a","p","i","s",".","c","o","m","/","c","s","s","?","f","a","m","i","l","y","=">> \o FamilyParameter(families) \o tail,
     quote |-> quote, families |-> families, prop |-> <<>>, cands |-> <<>>]

DeclPiece(prop, cands) ==
    [kind |-> "decl", url |-> <<>>, quote |-> <<>>, families |-> <<>>,
     prop |-> prop, cands |-> cands]

RenderCandidate(c) == c.pad \o c.quote \o c.name \o c.quote \o c.pad

RenderPiece(pc_) ==
    IF pc_.kind = "import"
    THEN <<"@","i","m","p","o","r","t"," ","u","r","l","(">> \o pc_.quote \o pc_.url \o pc_.quote \o <<")",";">>
    ELSE IF pc_.kind = "decl"
    THEN <<"p","{">> \o pc_.prop \o <<":">>
         \o Join([k \in 1..Len(pc_.cands) |-> RenderCandidate(pc_.cands[k])], <<",">>)
         \o <<";","}">>
    ELSE <<"a","{","c","o","l","o","r",":","r","e","d","}">>

None == <<>>
Space == <<" ">>
Single == <<"'">>
Double == <<"\"">>

ImportRobotoOpenSans ==
    ImportPiece(<<Family(<<"R","o","b","o","t","o">>, <<":","4","0","0",",","7","0","0">>), Family(<<"O","p","e","n"," ","S","a","n","s">>, <<>>)>>, <<>>, Single)
ImportLato == ImportPiece(<<Family(<<"L","a","t","o">>, <<>>)>>, <<"&","d","i","s","p","l","a","y","=","s","w","a","p">>, None)
ImportEmptySegment ==
    ImportPiece(<<Family(<<"F","i","r","a"," ","S","a","n","s">>, <<":","3","0","0">>), Family(<<>>, <<>>)>>, <<>>, Double)
DeclArial ==
    DeclPiece(<<"f","o","n","t","-","f","a","m","i","l","y">>,
              <<Candidate(<<"A","r","i","a","l">>, None, None), Candidate(<<"s","a","n","s","-","s","e","r","i","f">>, None, Space)>>)
DeclQuoted ==
    DeclPiece(<<"F","O","N","T","-","F","A","M","I","L","Y"," ">>,
              <<Candidate(<<"O","p","e","n"," ","S","a","n","s">>, Double, Space), Candidate(<<"W","i","n","t","e","r">>, Single, None),
                Candidate(<<"m","o","n","o","s","p","a","c","e">>, None, None)>>)
DeclEmptyCandidate ==
    DeclPiece(<<"f","o","n","t","-","f","a","m","i","l","y">>,
              <<Candidate(<<"F","i","r","a"," ","S","a","n","s">>, Single, None), Candidate(<<>>, None, Space),
                Candidate(<<"s","e","r","i","f">>, Single, Space)>>)
DeclEmptyQuotes ==
    DeclPiece(<<"F","o","n","t","-","F","a","m","i","l","y">>,
              <<Candidate(<<>>, Double, None), Candidate(<<"R","O","B","O","T","O"," ","S","l","a","b">>, None, Space),
                Candidate(<<"G","e","o","r","g","i","a">>, None, None)>>)
OtherRule ==
    [kind |-> "other", url |-> <<>>, quote |-> <<>>, families |-> <<>>,
     prop |-> <<>>, cands |-> <<>>]

PiecePool ==
    {ImportRobotoOpenSans, ImportLato, ImportEmptySegment,
     DeclArial, DeclQuoted, DeclEmptyCandidate, DeclEmptyQuotes, OtherRule}

CssInputs ==
    {[pieces |-> ps, text |-> Concat([k \in 1..Len(ps) |-> RenderPiece(ps[k])])] :
        ps \in SeqsUpTo(PiecePool, MaxPieces)}

InitCss ==
    /\ InitScan
    /\ css \in CssInputs
    /\ extracted = NoneExtracted

\* extract_fonts_from_css is applied to the text
ExtractCss ==
    /\ extracted.by = "none"
    /\ extracted' = [by |-> "css", fonts |-> extract_fonts_from_css(css.text, <<>>)]
    /\ UNCHANGED <<pc, request, url, page, css_links, idx, fonts, origins, fetched,
                   primary, http_status, response, css>>

\* the link elements of a page whose <link> tags carry the URLs of the import
\* pieces as their hrefs
LinkElements(ps) ==
    LET imports == SelectSeq(ps, LAMBDA x : x.kind = "import")
    IN [k \in 1..Len(imports) |-> [rel |-> "stylesheet", href |-> imports[k].url]]

\* the "Check for Google Fonts link tags" loop is applied to those elements
ScanLinkTags ==
    /\ extracted.by = "none"
    /\ LET glinks == google_font_links([links |-> LinkElements(css.pieces),
                                        styles |-> <<>>])
       IN extracted' =
             [by |-> "links",
              fonts |-> Concat([k \in 1..Len(glinks) |-> link_fonts(glinks[k])])]
    /\ UNCHANGED <<pc, request, url, page, css_links, idx, fonts, origins, fetched,
                   primary, http_status, response, css>>

NextCss ==
    \/ ExtractCss
    \/ ScanLinkTags

SpecCss == InitCss /\ [][NextCss]_vars

\* ------------------------------------------------------------ the claims

\* the scan answered with a successful result
Succeeded == pc = "done" /\ http_status = 200 /\ response.success

Pair(d) == <<d.family, d.type>>

\* the positions of fonts that hold the first occurrence of their pair
FirstIndex(d) == CHOOSE k \in 1..Len(fonts) :
                    /\ Pair(fonts[k]) = Pair(d)
                    /\ \A j \in 1..(k - 1) : Pair(fonts[j]) # Pair(d)

\* C1: the fonts of a successful result hold no (family, type) pair twice, hold
\* every pair that was collected, hold for each pair the descriptor of its
\* first occurrence, and keep the order in which the pairs were first met.
C1_Deduplicated ==
    Succeeded =>
        LET r == response.fonts IN
        /\ \A i, j \in 1..Len(r) : i # j => Pair(r[i]) # Pair(r[j])
        /\ \A k \in 1..Len(fonts) : \E i \in 1..Len(r) : Pair(r[i]) = Pair(fonts[k])
        /\ \A i \in 1..Len(r) :
              /\ \E k \in 1..Len(fonts) : Pair(fonts[k]) = Pair(r[i])
              /\ r[i] = fonts[FirstIndex(r[i])]
        /\ \A i \in 1..(Len(r) - 1) : FirstIndex(r[i]) < FirstIndex(r[i + 1])

\* a result that dropped duplicates and kept one family under both types
C1_Witness ==
    /\ Succeeded
    /\ Len(response.fonts) < Len(fonts)
    /\ \E i, j \in 1..Len(response.fonts) :
          /\ response.fonts[i].family = response.fonts[j].family
          /\ response.fonts[i].type # response.fonts[j].type

\* the positions in css_links of the links that have an href, in order
HrefIndices ==
    SelectSeq([k \in 1..Len(css_links) |-> k], LAMBDA k : css_links[k].href # <<>>)

\* a stylesheet request that failed: a network error, a timeout, or a response
\* other than 200
SheetFailed(f) == f.kind # "response" \/ f.status # 200

\* C2: when the page fetch succeeded, the scan ends with success = true
\* whatever the stylesheet fetches did: every link with an href was requested,
\* in document order, and the fonts of every stylesheet that loaded are in
\* the result.
C2_StylesheetFailureTolerated ==
    (pc = "done" /\ primary.kind = "response" /\ primary.status = 200) =>
        /\ http_status = 200
        /\ response.success = TRUE
        /\ [k \in 1..Len(fetched) |-> fetched[k].n] = HrefIndices
        /\ \A k \in 1..Len(fetched) :
              ~SheetFailed(fetched[k]) =>
                  LET loaded == css_fonts_of[SheetBody(fetched[k].url)]
                  IN \A m \in 1..Len(loaded) :
                        \E i \in 1..Len(response.fonts) :
                            Pair(response.fonts[i]) = Pair(loaded[m])

\* three stylesheets were requested, the first raised, the other two loaded
C2_Witness ==
    /\ Succeeded
    /\ Len(fetched) = 3
    /\ fetched[1].kind = "error"
    /\ ~SheetFailed(fetched[2])
    /\ ~SheetFailed(fetched[3])
    /\ fetched[2].url # fetched[3].url
    /\ Len(response.fonts) >= 3

\* the positions of fonts that the deduplication keeps
KeptIndices ==
    {k \in 1..Len(fonts) : \A j \in 1..(k - 1) : Pair(fonts[j]) # Pair(fonts[k])}

\* C3: no descriptor of the result originates from the body of a stylesheet
\* response that was a failure (network error, timeout, status other than 200).
C3_FailedSheetContributesNothing ==
    Succeeded =>
        \A k \in 1..Len(fetched) :
            SheetFailed(fetched[k]) =>
                \A i \in KeptIndices : origins[i] # [from |-> "sheet", n |-> fetched[k].n]

\* C4 as stated: a page fetch that fails by a network error, a timeout or a
\* status outside 2xx ends in success = false with an error message, no fonts,
\* the requested url, no stylesheet request, and HTTP 200.
FailureAnswered ==
    /\ http_status = 200
    /\ DOMAIN response = {"success", "error", "fonts", "url"}
    /\ response.success = FALSE
    /\ response.fonts = <<>>
    /\ response.url = request.url.s
    /\ fetched = <<>>

C4_Original ==
    (/\ pc = "done"
     /\ \/ primary.kind \in {"error", "timeout"}
        \/ primary.kind = "response" /\ ~(200 <= primary.status /\ primary.status <= 299))
    => FailureAnswered

\* C4 (amended): a page fetch that fails by a network error, a timeout or a
\* 4xx or 5xx status ends in success = false with an error message, no fonts,
\* the requested url, no stylesheet request, and HTTP 200.
C4_PageFetchFailure ==
    (/\ pc = "done"
     /\ \/ primary.kind \in {"error", "timeout"}
        \/ primary.kind = "response" /\ 400 <= primary.status /\ primary.status <= 599)
    => FailureAnswered

C4_Witness ==
    /\ pc = "done"
    /\ primary.kind = "response"
    /\ primary.status = 404
    /\ response.success = FALSE

\* a request whose url is missing or invalid: no body, no object, no url
\* field, a url that is not a string, an empty url, a url without a scheme
\* or without a host, or a malformed host
InvalidRequest(body) ==
    \/ body.kind # "object"
    \/ body.url.t # "string"
    \/ body.url.s = <<>>
    \/ ~Contains(body.url.s, <<":","/","/">>)
    \/ StartsAt(body.url.s, <<":","/","/">>, 0)
    \/ Contains(body.url.s, <<":","/","/","/">>)
    \/ ("[" \in Range(body.url.s)) # ("]" \in Range(body.url.s))

\* C5: every request whose url is missing or invalid is answered 400 with an
\* error string and never reaches analyze_website; every other request is
\* answered 200.
C5_InvalidInputIs400 ==
    pc = "done" =>
        IF InvalidRequest(request)
        THEN /\ http_status = 400
             /\ DOMAIN response = {"error"}
             /\ primary.kind = "none"
        ELSE http_status = 200

\* C6 as stated: a successful result is {success, fonts, total, url} with total
\* the number of descriptors in fonts and url the requested URL.
C6_Original ==
    Succeeded =>
        /\ DOMAIN response = {"success", "fonts", "total", "url"}
        /\ response.total = Len(response.fonts)
        /\ response.url = request.url.s

\* C6 (amended): a successful result is {success, fonts, total_fonts, url} with
\* total_fonts the number of descriptors in the deduplicated fonts list and
\* url the requested URL.
C6_SuccessResult ==
    Succeeded =>
        /\ DOMAIN response = {"success", "fonts", "total_fonts", "url"}
        /\ response.total_fonts = Len(response.fonts)
        /\ response.url = request.url.s

C6_Witness ==
    /\ Succeeded
    /\ response.total_fonts >= 2
    /\ response.total_fonts < Len(fonts)

\* the names of the candidates of the declaration pieces, in order
RECURSIVE CandidateNames(_)
CandidateNames(ps) ==
    IF ps = <<>> THEN <<>>
    ELSE (IF Head(ps).kind = "decl"
          THEN [k \in 1..Len(Head(ps).cands) |-> Head(ps).cands[k].name]
          ELSE <<>>)
         \o CandidateNames(Tail(ps))

\* the families of the descriptors that the font-family scan emitted
DeclarationFamilies ==
    LET ds == SelectSeq(extracted.fonts, LAMBDA d : d.source = CssMarker)
    IN [k \in 1..Len(ds) |-> ds[k].family]

ArialOnly == <<[family |-> <<"A","r","i","a","l">>, type |-> "web", source |-> CssMarker]>>

\* C7 as stated: one descriptor per candidate that is not a generic keyword.
C7_Original ==
    extracted.by = "css" =>
        DeclarationFamilies =
            SelectSeq(CandidateNames(css.pieces), LAMBDA n : n \notin GenericKeywords)

\* C7 (amended): for every font-family declaration the value is split on
\* commas, each candidate is trimmed of whitespace and surrounding quotes, and
\* exactly one descriptor is emitted per candidate that is not empty and not
\* a generic keyword; no descriptor has a generic keyword as its family, and
\* `font-family: Arial, sans-serif;` yields exactly {Arial, web}.
C7_FontFamilyCandidates ==
    extracted.by = "css" =>
        /\ DeclarationFamilies =
              SelectSeq(CandidateNames(css.pieces),
                        LAMBDA n : n # <<>> /\ n \notin GenericKeywords)
        /\ \A k \in 1..Len(extracted.fonts) : extracted.fonts[k].family \notin GenericKeywords
        /\ css.pieces = <<DeclArial>> => extracted.fonts = ArialOnly

\* a declaration with an empty candidate was scanned
C7_Witness ==
    /\ extracted.by = "css"
    /\ css.pieces = <<DeclEmptyCandidate, DeclArial>>
    /\ Len(extracted.fonts) = 2

\* the family contains, letters compared without case, a name of the reference list
ContainsReferenceName(family) ==
    \E g \in 1..Len(google_fonts) :
        \E off \in 0..Len(family) :
            /\ off + Len(google_fonts[g]) <= Len(family)
            /\ \A i \in 1..Len(google_fonts[g]) :
                  LowerChar(family[off + i]) = LowerChar(google_fonts[g][i])

\* C8: a descriptor has type google exactly when its family contains a
\* reference name or its source is a fonts.googleapis.com URL; every other
\* descriptor has type web.
C8_TypeClassification ==
    \A k \in 1..Len(extracted.fonts) :
        LET d == extracted.fonts[k] IN
        /\ d.type \in {"google", "web"}
        /\ d.type = "google" <=>
              (ContainsReferenceName(d.family) \/ Contains(d.source, GoogleHost))

\* a text yielding a google descriptor by URL, one by name, and a web one
C8_Witness ==
    /\ extracted.by = "css"
    /\ \E i, j, k \in 1..Len(extracted.fonts) :
          /\ extracted.fonts[i].type = "google"
          /\ extracted.fonts[i].source # CssMarker
          /\ ~ContainsReferenceName(extracted.fonts[i].family)
          /\ extracted.fonts[j].type = "google"
          /\ extracted.fonts[j].source = CssMarker
          /\ extracted.fonts[k].type = "web"

\* the descriptors the import pieces stand for: one per family, in order
RECURSIVE ImportedFamilies(_)
ImportedFamilies(ps) ==
    IF ps = <<>> THEN <<>>
    ELSE (IF Head(ps).kind = "import"
          THEN [k \in 1..Len(Head(ps).families) |->
                   [family |-> Head(ps).families[k].name,
                    type |-> "google",
                    source |-> Head(ps).url]]
          ELSE <<>>)
         \o ImportedFamilies(Tail(ps))

\* C9: the family= extraction on a fonts.googleapis.com URL, in an @import rule
\* or in a link href, emits one descriptor per '|'-separated family, '+' read
\* as a space, the ':' suffix removed, type google, source the full URL.
C9_FamilyParameter ==
    /\ extracted.by = "css" =>
          SelectSeq(extracted.fonts, LAMBDA d : d.source # CssMarker)
              = ImportedFamilies(css.pieces)
    /\ extracted.by = "links" => extracted.fonts = ImportedFamilies(css.pieces)

\* family=Roboto:400,700|Open+Sans was extracted from an @import rule
C9_Witness ==
    /\ extracted.by = "css"
    /\ css.pieces = <<ImportRobotoOpenSans>>
    /\ Len(extracted.fonts) = 2
    /\ extracted.fonts[2].family = <<"O","p","e","n"," ","S","a","n","s">>

\* C10: every descriptor of a scan result has a non-empty family name.
C10_NonEmptyFamily ==
    Succeeded => \A i \in 1..Len(response.fonts) : response.fonts[i].family # <<>>
====
